---- MODULE Spec2Model ----
(***************************************************************************)
(* testfs: a virtual test file system built on FUSE (src/testfs.c).        *)
(*                                                                         *)
(* A C string is a sequence of one-character strings.  A static buffer is  *)
(* the prefix of it that has been written so far; every byte beyond that   *)
(* prefix is still the NUL the loader put there.  A char* is a record      *)
(* [b, i]: the buffer it points into and the 1-based index in it.          *)
(* int is 32 bits wide; signed overflow is taken as two's complement       *)
(* wrap-around, which is what gcc on the documented build line produces.   *)
(* size_t and off_t are 64 bits wide (LP64, _FILE_OFFSET_BITS=64).         *)
(***************************************************************************)
EXTENDS Integers, Sequences, FiniteSets, TLC

VARIABLES
    parse_path_buf,   \* static char buf[256] of parse_path
    parse_root_buf,   \* static char buf[256] of parse_root
    strtok_save,      \* the position strtok keeps between calls
    frame,            \* per thread: the handler call it runs, or has last run
    oob,              \* what this build finds at root.width[-1]
    calls,            \* the number of calls made so far
    kept              \* an earlier successful read (history, for comparison)

vars == <<parse_path_buf, parse_root_buf, strtok_save, frame, oob, calls, kept>>

-----------------------------------------------------------------------------
(* Program constants *)

MAXTOK == 16
MAXWIDTH == 1000000
ENOENT == 2
EACCES == 13
O_RDONLY == 0
O_WRONLY == 1
O_RDWR == 2
O_ACCMODE == 3
LINE == 32
MULT == 1723
ALPHA == 26
KILO == 1024

NUL == "NUL"
NULL == [b |-> "null", i |-> 0]

\* ASCII codes of the characters the paths of the model are made of
Ascii ==
    (" " :> 32) @@ ("+" :> 43) @@ ("-" :> 45) @@ ("." :> 46) @@ ("/" :> 47) @@
    ("0" :> 48) @@ ("1" :> 49) @@ ("2" :> 50) @@ ("3" :> 51) @@ ("4" :> 52) @@
    ("5" :> 53) @@ ("6" :> 54) @@ ("7" :> 55) @@ ("8" :> 56) @@ ("9" :> 57) @@
    ("G" :> 71) @@ ("K" :> 75) @@ ("M" :> 77) @@ ("a" :> 97) @@ ("g" :> 103) @@
    ("k" :> 107) @@ ("m" :> 109) @@ ("x" :> 120)

IsDigit(c) == c \in DOMAIN Ascii /\ Ascii[c] >= 48 /\ Ascii[c] <= 57
IsSpace(c) == c = " "
DigitChars == <<"0", "1", "2", "3", "4", "5", "6", "7", "8", "9">>

-----------------------------------------------------------------------------
(* 32-bit int arithmetic, on 16-bit halves so that no intermediate value   *)
(* leaves the range of TLC's integers.                                   *)

W16 == 65536
H16 == 32768

Lo16(a) == a % W16
Hi16(a) == (a \div W16) % W16
Int32(hi, lo) == IF hi >= H16 THEN (hi - W16) * W16 + lo ELSE hi * W16 + lo

\* a + b in int
add32(a, b) ==
    LET lo == Lo16(a) + Lo16(b)
        hi == Hi16(a) + Hi16(b) + (lo \div W16)
    IN  Int32(hi % W16, lo % W16)

\* a * b in int, for 0 <= b < 2^15
mul32(a, b) ==
    LET lo == Lo16(a) * b
        hi == Hi16(a) * b + (lo \div W16)
    IN  Int32(hi % W16, lo % W16)

\* a % b of C (the sign of the result is the sign of a), for b > 0
crem(a, b) ==
    IF a >= 0 THEN a % b
    ELSE LET r == a % b IN IF r = 0 THEN 0 ELSE r - b

-----------------------------------------------------------------------------
(* The C library calls the program makes on its buffers *)

CharAt(buf, i) == IF i >= 1 /\ i <= Len(buf) THEN buf[i] ELSE NUL

\* index of the first NUL at or after i
RECURSIVE StrEnd(_, _)
StrEnd(buf, i) == IF CharAt(buf, i) = NUL THEN i ELSE StrEnd(buf, i + 1)

\* the string that starts at index i
StrAt(buf, i) == SubSeq(buf, i, StrEnd(buf, i) - 1)

strlen(s) == Len(s)

\* strcpy(buf, s): Len(s) + 1 bytes are written, the rest of buf stays
strcpy(buf, s) ==
    s \o <<NUL>> \o SubSeq(buf, Len(s) + 2, Len(buf))

\* index of the first character at or after i that is not delim (strspn)
RECURSIVE SkipDelim(_, _, _)
SkipDelim(buf, i, delim) ==
    IF CharAt(buf, i) = delim THEN SkipDelim(buf, i + 1, delim) ELSE i

\* index of the first delim or NUL at or after i (strcspn)
RECURSIVE FindDelim(_, _, _)
FindDelim(buf, i, delim) ==
    IF CharAt(buf, i) \in {delim, NUL} THEN i ELSE FindDelim(buf, i + 1, delim)

\* strtok(str, delim) on memory m = [pp, pr, save]; str = NULL continues from
\* the saved position.  Gives [p |-> the token or NULL, m |-> the memory after].
\* strtok_end: the token starts at index i of buffer b and ends before e
strtok_end(m, b, i, e) ==
    IF CharAt(m[b], e) = NUL
    THEN [p |-> [b |-> b, i |-> i], m |-> [m EXCEPT !.save = [b |-> b, i |-> e]]]
    ELSE [p |-> [b |-> b, i |-> i],
          m |-> [m EXCEPT ![b] = [@ EXCEPT ![e] = NUL],
                          !.save = [b |-> b, i |-> e + 1]]]

\* strtok_tok: the delimiters before the token have been skipped
strtok_tok(m, b, i, delim) ==
    IF CharAt(m[b], i) = NUL
    THEN [p |-> NULL, m |-> [m EXCEPT !.save = [b |-> b, i |-> i]]]
    ELSE strtok_end(m, b, i, FindDelim(m[b], i, delim))

strtok_from(m, s, delim) ==
    IF CharAt(m[s.b], s.i) = NUL
    THEN [p |-> NULL, m |-> [m EXCEPT !.save = s]]
    ELSE strtok_tok(m, s.b, SkipDelim(m[s.b], s.i, delim), delim)

strtok(m, str, delim) ==
    strtok_from(m, IF str = NULL THEN m.save ELSE str, delim)

\* the value of the digits of s from index i on, after acc
RECURSIVE Digits(_, _, _)
Digits(s, i, acc) ==
    IF i <= Len(s) /\ IsDigit(s[i])
    THEN Digits(s, i + 1, acc * 10 + (Ascii[s[i]] - 48))
    ELSE acc

RECURSIVE SkipSpace(_, _)
SkipSpace(s, i) ==
    IF i <= Len(s) /\ IsSpace(s[i]) THEN SkipSpace(s, i + 1) ELSE i

\* the digits of a %d conversion, from index d on
ScanDigits(s, d, neg) ==
    IF d <= Len(s) /\ IsDigit(s[d])
    THEN [ok |-> TRUE, val |-> IF neg THEN 0 - Digits(s, d, 0) ELSE Digits(s, d, 0)]
    ELSE [ok |-> FALSE, val |-> 0]

\* the optional sign of a %d conversion, at index i
ScanSign(s, i) ==
    IF i <= Len(s) /\ s[i] \in {"+", "-"}
    THEN ScanDigits(s, i + 1, s[i] = "-")
    ELSE ScanDigits(s, i, FALSE)

\* the %d conversion: white space, an optional sign, then at least one digit;
\* whatever follows the digits is left unread
ScanInt(s) == ScanSign(s, SkipSpace(s, 1))

\* sscanf(s, "%d<lit>", &val): the number of items assigned, and val.  A
\* literal that follows the %d cannot undo the assignment, so it does not
\* change the count.
sscanf(s, lit) ==
    [n |-> IF ScanInt(s).ok THEN 1 ELSE 0, val |-> ScanInt(s).val]

\* atoi(s): the leading integer of s, 0 when there is none
atoi(s) == ScanInt(s).val

\* sprintf(fname, "%d", i) for i >= 0
RECURSIVE sprintf_d(_)
sprintf_d(i) ==
    IF i < 10 THEN <<DigitChars[i + 1]>>
    ELSE sprintf_d(i \div 10) \o <<DigitChars[(i % 10) + 1]>>

-----------------------------------------------------------------------------
(* A handler call.  Its locals live in a frame; the statics live in the    *)
(* memory m = [pp, pr, save].  One step of a call is one library call on   *)
(* the statics, with the local computation that leads up to it.            *)

ZeroWidth == [k \in 1..MAXTOK |-> 0]

\* The frame of a new call.  width_m1 is the int the build finds at
\* root.width[-1], a read outside the array that open and read make for a
\* descriptor without layers.
NewFrame(op, path, flags, size, offset, width_m1) ==
    [op |-> op, path |-> path, flags |-> flags, size |-> size,
     offset |-> offset, oob |-> width_m1,
     pc |-> "entry", pathbuf |-> <<>>, tok |-> <<>>, p |-> NULL,
     root |-> [fsize |-> 0, depth |-> 0, width |-> ZeroWidth], val |-> 0,
     ret |-> 0, st |-> [st_mode |-> "unset", st_nlink |-> 0, st_size |-> 0],
     entries |-> <<>>, data |-> <<>>]

IdleFrame == [NewFrame("none", <<>>, 0, 0, 0, 0) EXCEPT !.pc = "idle"]

Return(l, rc) == [l EXCEPT !.pc = "done", !.ret = rc]

PP1 == [b |-> "pp", i |-> 1]
PR1 == [b |-> "pr", i |-> 1]

\* root.width[k] of C, k counted from 0
WidthAt(l, k) == IF k < 0 THEN l.oob ELSE l.root.width[k + 1]

\* the first lines of a handler: the test for the mount point in getattr and
\* readdir, the memset of getattr, and the copy of path into pathbuf
handler_entry(l) ==
    IF l.op \in {"getattr", "readdir"} /\ l.path = <<"/">>
    THEN Return(l, 0 - ENOENT)
    ELSE [l EXCEPT !.pathbuf = l.path,
                   !.st = IF l.op = "getattr"
                          THEN [st_mode |-> "0", st_nlink |-> 0, st_size |-> 0]
                          ELSE @,
                   !.pc = "pp_copy"]

\* p = strtok(...): r is what strtok gave
SetP(l, r, pc) == [l |-> [l EXCEPT !.p = r.p, !.pc = pc], m |-> r.m]

\* tok[n] = p; p = strtok(NULL,"/"); n++
NextTok(l, r) == [l |-> [l EXCEPT !.tok = Append(@, l.p), !.p = r.p], m |-> r.m]

\* parse_path(pathbuf, tok), and the handler's test of what it returns
parse_path(l, m) ==
    CASE l.pc = "pp_copy" ->
            [l |-> [l EXCEPT !.tok = <<>>, !.pc = "pp_first"],
             m |-> [m EXCEPT !.pp = strcpy(m.pp, l.pathbuf)]]
      [] l.pc = "pp_first" -> SetP(l, strtok(m, PP1, "/"), "pp_loop")
      [] l.pc = "pp_loop" ->
            IF l.p # NULL /\ Len(l.tok) < MAXTOK
            THEN NextTok(l, strtok(m, NULL, "/"))
            ELSE IF Len(l.tok) < 1
            THEN [l |-> Return(l, 0 - ENOENT), m |-> m]
            ELSE [l |-> [l EXCEPT !.pc = "pr_copy"], m |-> m]

\* the cascade of sscanf calls that reads the file size
parse_size(s) ==
    IF      sscanf(s, "k").n = 1 THEN [ok |-> TRUE, fsize |-> mul32(sscanf(s, "k").val, KILO)]
    ELSE IF sscanf(s, "K").n = 1 THEN [ok |-> TRUE, fsize |-> mul32(sscanf(s, "K").val, KILO)]
    ELSE IF sscanf(s, "m").n = 1 THEN [ok |-> TRUE, fsize |-> mul32(mul32(sscanf(s, "m").val, KILO), KILO)]
    ELSE IF sscanf(s, "M").n = 1 THEN [ok |-> TRUE, fsize |-> mul32(mul32(sscanf(s, "M").val, KILO), KILO)]
    ELSE IF sscanf(s, "g").n = 1 THEN [ok |-> TRUE, fsize |-> mul32(mul32(mul32(sscanf(s, "g").val, KILO), KILO), KILO)]
    ELSE IF sscanf(s, "G").n = 1 THEN [ok |-> TRUE, fsize |-> mul32(mul32(mul32(sscanf(s, "G").val, KILO), KILO), KILO)]
    ELSE IF sscanf(s, "").n = 1  THEN [ok |-> TRUE, fsize |-> sscanf(s, "").val]
    ELSE [ok |-> FALSE, fsize |-> 0]

\* root->fsize = ...; memset(width); root->depth = 0, or return -1
SetSize(l, sz) ==
    IF ~sz.ok THEN Return(l, 0 - ENOENT)
    ELSE [l EXCEPT !.root = [fsize |-> sz.fsize, depth |-> 0, width |-> ZeroWidth],
                   !.pc = "pr_next"]

\* the body of the loop over the width tokens; s is the string at p
SetWidth(l, s, val) ==
    IF strlen(s) = 0 THEN l
    ELSE IF val <= 0 \/ val > MAXWIDTH
    THEN Return([l EXCEPT !.val = val], 0 - ENOENT)
    ELSE [l EXCEPT !.val = val,
                   !.root.width[l.root.depth + 1] = val,
                   !.root.depth = @ + 1,
                   !.pc = "pr_next"]

\* parse_root(tok[0], &root), and the handler's test of what it returns
parse_root(l, m) ==
    CASE l.pc = "pr_copy" ->
            [l |-> [l EXCEPT !.pc = "pr_first"],
             m |-> [m EXCEPT !.pr = strcpy(m.pr, StrAt(m[l.tok[1].b], l.tok[1].i))]]
      [] l.pc = "pr_first" -> SetP(l, strtok(m, PR1, "x"), "pr_size")
      [] l.pc = "pr_size" ->
            IF l.p = NULL
            THEN [l |-> Return(l, 0 - ENOENT), m |-> m]
            ELSE [l |-> SetSize(l, parse_size(StrAt(m[l.p.b], l.p.i))), m |-> m]
      [] l.pc = "pr_next" -> SetP(l, strtok(m, NULL, "x"), "pr_loop")
      [] l.pc = "pr_loop" ->
            IF l.p # NULL /\ l.root.depth < MAXTOK
            THEN [l |-> SetWidth(l, StrAt(m[l.p.b], l.p.i),
                                 atoi(StrAt(m[l.p.b], l.p.i))),
                  m |-> m]
            ELSE [l |-> [l EXCEPT !.pc = "body"], m |-> m]

\* seed_from_path(pathbuf); x and seed after the characters before index i
RECURSIVE seed_loop(_, _, _, _)
seed_loop(path, i, x, seed) ==
    IF i > Len(path) THEN seed
    ELSE seed_loop(path, i + 1, Ascii[path[i]], add32(seed, Ascii[path[i]] * x))

seed_from_path(path) == seed_loop(path, 1, 0, 0)

\* the byte the read loop stores for position j
read_byte(seed, j, fsize) ==
    IF crem(j, LINE) = LINE - 1 \/ j = fsize - 1
    THEN 10
    ELSE 97 + crem(add32(seed, mul32(j, MULT)), ALPHA)

\* a read loop that counts positions from the start of the buffer
read_fill_rel(seed, fsize, size, offset) ==
    [i \in 1..size |-> read_byte(seed, i - 1, fsize)]

\* the read loop: buf[0 .. size-1]
read_fill(seed, fsize, size, offset) ==
    [i \in 1..size |-> read_byte(seed, (i - 1) + offset, fsize)]

\* size after "if ( root.fsize-offset < size ) size = root.fsize-offset;".
\* The comparison is made in unsigned 64 bits: a negative difference is a
\* number above every size of the model and is never below size.
read_clamp(fsize, size, offset) ==
    IF fsize - offset >= 0 /\ fsize - offset < size THEN fsize - offset ELSE size

\* testfs_getattr after parse_root
testfs_getattr(l) ==
    IF Len(l.tok) <= l.root.depth
    THEN Return([l EXCEPT !.st = [st_mode |-> "S_IFDIR|0755",
                                  st_nlink |-> 2, st_size |-> 0]], 0)
    ELSE IF Len(l.tok) = l.root.depth + 1
    THEN Return([l EXCEPT !.st = [st_mode |-> "S_IFREG|0444",
                                  st_nlink |-> 1, st_size |-> l.root.fsize]], 0)
    ELSE Return(l, 0 - ENOENT)

\* testfs_readdir after parse_root
testfs_readdir(l) ==
    IF Len(l.tok) > l.root.depth
    THEN Return(l, 0 - ENOENT)
    ELSE Return([l EXCEPT !.entries =
                    <<<<".">>, <<".", ".">>>> \o
                    [i \in 1..WidthAt(l, Len(l.tok) - 1) |-> sprintf_d(i - 1)]], 0)

\* testfs_open and testfs_read after parse_root: the test that the path
\* names a file
file_check(l) ==
    IF Len(l.tok) # l.root.depth + 1
    THEN Return(l, 0 - ENOENT)
    ELSE [l EXCEPT !.pc = "leaf"]

\* the tests of the file name and of the access mode, which testfs_open and
\* testfs_read share; sc is what sscanf(tok[ntok-1],"%d",&val) gave
leaf_check(l, sc) ==
    IF sc.n # 1 THEN Return(l, 0 - ENOENT)
    ELSE IF sc.val < 0 \/ sc.val >= WidthAt(l, l.root.depth - 1)
    THEN Return([l EXCEPT !.val = sc.val], 0 - ENOENT)
    ELSE IF (l.flags % (O_ACCMODE + 1)) # O_RDONLY
    THEN Return([l EXCEPT !.val = sc.val], 0 - EACCES)
    ELSE [l EXCEPT !.val = sc.val, !.pc = "ok"]

\* the end of testfs_open; c is the frame after the checks
open_ok(c) == IF c.pc = "done" THEN c ELSE Return(c, 0)

\* the end of testfs_read; c is the frame after the checks, size the size
\* after the clamp
read_ok(c, size) ==
    IF c.pc = "done" THEN c
    ELSE IF size <= 0 THEN Return(c, 0)
    ELSE Return([c EXCEPT !.data = read_fill(seed_from_path(c.pathbuf),
                                             c.root.fsize, size, c.offset)],
                size)

\* testfs_open from the scan of the file name on
testfs_open(l, name) == open_ok(leaf_check(l, sscanf(name, "")))

\* testfs_read from the scan of the file name on
testfs_read(l, name) ==
    read_ok(leaf_check(l, sscanf(name, "")),
            read_clamp(l.root.fsize, l.size, l.offset))

\* the string at tok[ntok-1]
LeafName(l, m) == StrAt(m[l.tok[Len(l.tok)].b], l.tok[Len(l.tok)].i)

\* One step of the call in frame l on memory m: [l |-> frame, m |-> memory]
Step(l, m) ==
    CASE l.pc = "entry" -> [l |-> handler_entry(l), m |-> m]
      [] l.pc \in {"pp_copy", "pp_first", "pp_loop"} -> parse_path(l, m)
      [] l.pc \in {"pr_copy", "pr_first", "pr_size", "pr_next", "pr_loop"} ->
            parse_root(l, m)
      [] l.pc = "body" ->
            [l |-> CASE l.op = "getattr" -> testfs_getattr(l)
                     [] l.op = "readdir" -> testfs_readdir(l)
                     [] OTHER -> file_check(l),
             m |-> m]
      [] l.pc = "leaf" ->
            [l |-> IF l.op = "open" THEN testfs_open(l, LeafName(l, m))
                   ELSE testfs_read(l, LeafName(l, m)),
             m |-> m]

\* A call run from its first step to its return, with no other call between
RECURSIVE Run(_)
Run(c) == IF c.l.pc = "done" THEN c ELSE Run(Step(c.l, c.m))

Memory == [pp |-> parse_path_buf, pr |-> parse_root_buf, save |-> strtok_save]

-----------------------------------------------------------------------------
(* The paths and arguments the handlers are called with *)

MaxSelectors == 2     \* selector lists of every length up to this one
MaxSize == 3          \* reads of every size up to this one

RECURSIVE Rep(_, _)
Rep(n, s) == IF n = 0 THEN <<>> ELSE s \o Rep(n - 1, s)

RECURSIVE Join(_)
Join(segs) == IF segs = <<>> THEN <<>> ELSE <<"/">> \o Head(segs) \o Join(Tail(segs))

\* first segments: well-formed descriptors
D_1k      == <<"1", "k">>
D_1kx5x4  == <<"1", "k", "x", "5", "x", "4">>
D_1x5     == <<"1", "x", "5">>
D_1mx5    == <<"1", "m", "x", "5">>
D_1Gx5    == <<"1", "G", "x", "5">>
D_2048kx1 == <<"2", "0", "4", "8", "k", "x", "1">>
D_15      == <<"1">> \o Rep(MAXTOK - 1, <<"x", "1">>)
D_16      == <<"1">> \o Rep(MAXTOK - 1, <<"x", "1">>) \o <<"x", "2">>
\* first segments outside the grammar
D_x5x4    == <<"x", "5", "x", "4">>
D_5x0x3   == <<"5", "x", "0", "x", "3">>
D_1kx5xx4 == <<"1", "k", "x", "5", "x", "x", "4">>
D_1kx3a   == <<"1", "k", "x", "3", "a">>
D_kx5     == <<"k", "x", "5">>
D_1kxax5  == <<"1", "k", "x", "a", "x", "5">>
D_wide    == <<"1", "k", "x", "1", "0", "0", "0", "0", "0", "1">>
D_17      == D_16 \o <<"x", "1">>
D_17z     == D_16 \o <<"x", "0">>

Descriptors ==
    {D_1k, D_1kx5x4, D_1x5, D_1mx5, D_1Gx5, D_2048kx1, D_15, D_16,
     D_x5x4, D_5x0x3, D_1kx5xx4, D_1kx3a, D_kx5, D_1kxax5, D_wide, D_17, D_17z}

SelectorTokens == {<<"0">>, <<"9">>, <<"0", "a">>, <<"a">>}

SelectorLists ==
    UNION {[1..n -> SelectorTokens] : n \in 0..MaxSelectors}
    \cup {[i \in 1..n |-> <<"0">>] : n \in (MAXTOK - 1)..(MAXTOK + 1)}

Paths ==
    {<<"/">>} \cup {Join(<<d>> \o sels) : d \in Descriptors, sels \in SelectorLists}

\* the paths of the runs that compare reads
FewPaths ==
    {<<"/">>,
     Join(<<D_1kx5x4>>), Join(<<D_1kx5x4, <<"2">>, <<"3">>>>),
     Join(<<D_2048kx1, <<"0">>>>), Join(<<D_5x0x3, <<"0">>>>)}

Flags == {O_RDONLY, O_WRONLY, O_RDWR}
OobValues == {0, 4}
BigOffset == 1246400

-----------------------------------------------------------------------------
(* Calls made one after the other: each action is a whole handler call *)

MaxCalls == 2         \* calls in one run

Threads == {1, 2}

NoRead == [path |-> <<>>, offset |-> 0, data |-> <<>>]

Init ==
    /\ parse_path_buf = <<>>
    /\ parse_root_buf = <<>>
    /\ strtok_save = NULL
    /\ frame = [t \in Threads |-> IdleFrame]
    /\ kept = NoRead
    /\ calls = 0
    /\ oob \in OobValues

\* the frame and the statics become what the call c left
Commit(t, c) ==
    /\ frame' = [frame EXCEPT ![t] = c.l]
    /\ parse_path_buf' = c.m.pp
    /\ parse_root_buf' = c.m.pr
    /\ strtok_save' = c.m.save

\* the call in frame l made by thread 1, from entry to return
Call(l) ==
    /\ calls' = calls + 1
    /\ Commit(1, Run([l |-> l, m |-> Memory]))
    /\ UNCHANGED oob

Getattr(P) ==
    /\ \E path \in P : Call(NewFrame("getattr", path, 0, 0, 0, oob))
    /\ UNCHANGED kept

Readdir(P) ==
    /\ \E path \in P : Call(NewFrame("readdir", path, 0, 0, 0, oob))
    /\ UNCHANGED kept

Open(P, F) ==
    /\ \E path \in P, flags \in F : Call(NewFrame("open", path, flags, 0, 0, oob))
    /\ UNCHANGED kept

Read(P, F, S, O) ==
    /\ \E path \in P, flags \in F, size \in S, offset \in O :
          Call(NewFrame("read", path, flags, size, offset, oob))
    /\ UNCHANGED kept

\* The calls before the last leave the statics as a few calls can leave them;
\* the last call is made on every path.
PathsNow == IF calls + 1 < MaxCalls THEN FewPaths ELSE Paths

Next ==
    \/ calls < MaxCalls /\ Getattr(PathsNow)
    \/ calls < MaxCalls /\ Readdir(PathsNow)
    \/ calls < MaxCalls /\ Open(PathsNow, Flags)
    \/ calls < MaxCalls /\ Read(PathsNow, Flags, {LINE + 1}, {0})

Spec == Init /\ [][Next]_vars

-----------------------------------------------------------------------------
(* What the claims speak of, read off the path itself: its segments, the   *)
(* descriptor grammar, decimal numerals.                                   *)

\* the fields of s between the occurrences of c, empty fields included
RECURSIVE FieldsFrom(_, _, _, _)
FieldsFrom(s, c, i, cur) ==
    IF i > Len(s) THEN <<cur>>
    ELSE IF s[i] = c THEN <<cur>> \o FieldsFrom(s, c, i + 1, <<>>)
    ELSE FieldsFrom(s, c, i + 1, Append(cur, s[i]))

NonEmpty(f) == f # <<>>

\* every segment of the path, however many there are
Segments(path) == SelectSeq(FieldsFrom(path, "/", 1, <<>>), NonEmpty)
FirstSegment(path) == Segments(path)[1]
Selectors(path) == Tail(Segments(path))
NumSelectors(path) == Len(Segments(path)) - 1
LastSegment(path) == Segments(path)[Len(Segments(path))]

DigitOf(c) == CHOOSE d \in 0..9 : DigitChars[d + 1] = c

\* a decimal numeral: one digit or more, and nothing else
IsNumeral(t) == t # <<>> /\ \A i \in 1..Len(t) : t[i] \in {DigitChars[d] : d \in 1..10}

RECURSIVE DecValue(_)
DecValue(t) ==
    IF t = <<>> THEN 0
    ELSE DecValue(SubSeq(t, 1, Len(t) - 1)) * 10 + DigitOf(t[Len(t)])

Units == {"k", "K", "m", "M", "g", "G"}

\* the numeral of a size token: the token without its unit
SizeNumeral(t) ==
    IF t # <<>> /\ t[Len(t)] \in Units THEN SubSeq(t, 1, Len(t) - 1) ELSE t

UnitFactor(t) ==
    IF t = <<>> \/ t[Len(t)] \notin Units THEN 1
    ELSE IF t[Len(t)] \in {"k", "K"} THEN KILO
    ELSE IF t[Len(t)] \in {"m", "M"} THEN KILO * KILO
    ELSE KILO * KILO * KILO

DescriptorFields(seg) == FieldsFrom(seg, "x", 1, <<>>)
SizeToken(seg) == DescriptorFields(seg)[1]
WidthTokens(seg) == Tail(DescriptorFields(seg))

GoodSizeToken(t) == IsNumeral(SizeNumeral(t))
GoodWidthToken(t) == IsNumeral(t) /\ DecValue(t) >= 1 /\ DecValue(t) <= MAXWIDTH

\* the size the grammar gives a size token
GrammarSize(seg) == DecValue(SizeNumeral(SizeToken(seg))) * UnitFactor(SizeToken(seg))

\* <size><unit>x<w1>x...x<wN>
InGrammar(seg) ==
    /\ GoodSizeToken(SizeToken(seg))
    /\ \A i \in 1..Len(WidthTokens(seg)) : GoodWidthToken(WidthTokens(seg)[i])

\* parse_root run on a segment by itself
RECURSIVE RunParse(_)
RunParse(c) == IF c.l.pc \in {"body", "done"} THEN c ELSE RunParse(Step(c.l, c.m))

ParsedAlone(seg) ==
    RunParse([l |-> [NewFrame("getattr", seg, 0, 0, 0, 0) EXCEPT
                        !.pc = "pr_copy", !.tok = <<PP1>>],
              m |-> [pp |-> seg, pr |-> <<>>, save |-> NULL]]).l

\* the descriptor parse_root makes of the first segment of the path
ParseOK(path) == ParsedAlone(FirstSegment(path)).pc = "body"
Depth(path) == ParsedAlone(FirstSegment(path)).root.depth
FileSize(path) == ParsedAlone(FirstSegment(path)).root.fsize
WidthOf(path, k) == ParsedAlone(FirstSegment(path)).root.width[k]

\* the call thread 1 has just returned from
Last == frame[1]
Returned(op) == Last.pc = "done" /\ Last.op = op
NotFound == Last.ret = 0 - ENOENT

\* the selector at layer i is a decimal integer in [0, w_i - 1]
GoodSelector(path, i) ==
    /\ IsNumeral(Selectors(path)[i])
    /\ DecValue(Selectors(path)[i]) < WidthOf(path, i)

\* the path names a file node: as many selectors as layers, the last in range
FileNode(path) ==
    /\ path # <<"/">>
    /\ ParseOK(path)
    /\ Depth(path) >= 1
    /\ NumSelectors(path) = Depth(path)
    /\ GoodSelector(path, Depth(path))

-----------------------------------------------------------------------------
(* Claims about one call *)

\* C2: for a first segment in the grammar, getattr on a file node under it
\* reports the size n * 1, n * 1024, n * 1024^2 or n * 1024^3 that the unit
\* of the size token asks for.
C2_SizeFollowsUnit ==
    (/\ Returned("getattr")
     /\ Last.path # <<"/">>
     /\ InGrammar(FirstSegment(Last.path))
     /\ NumSelectors(Last.path) = Len(WidthTokens(FirstSegment(Last.path)))
     /\ Len(WidthTokens(FirstSegment(Last.path))) <= MAXTOK - 1)
    => (/\ Last.ret = 0
        /\ Last.root.fsize = GrammarSize(FirstSegment(Last.path))
        /\ Last.st.st_size = GrammarSize(FirstSegment(Last.path)))

\* C3: for a descriptor that parses, getattr on the descriptor segment
\* followed by k selectors reports a directory when k < depth, a regular file
\* of the descriptor's size when k = depth, and not-found when k > depth,
\* however many segments the path has.
C3_GetattrByDepth ==
    (Returned("getattr") /\ Last.path # <<"/">> /\ ParseOK(Last.path))
    => IF NumSelectors(Last.path) < Depth(Last.path)
       THEN Last.ret = 0 /\ Last.st.st_mode = "S_IFDIR|0755"
       ELSE IF NumSelectors(Last.path) = Depth(Last.path)
       THEN /\ Last.ret = 0
            /\ Last.st.st_mode = "S_IFREG|0444"
            /\ Last.st.st_size = FileSize(Last.path)
       ELSE NotFound

\* C4: open returns 0 exactly for a file node whose last segment is a decimal
\* integer below widths[depth-1] opened read-only, EACCES for the same node in
\* another access mode, and ENOENT in every other case.
C4_OpenResult ==
    Returned("open")
    => Last.ret = IF FileNode(Last.path)
                  THEN IF Last.flags = O_RDONLY THEN 0 ELSE 0 - EACCES
                  ELSE 0 - ENOENT

\* C7: a first segment outside the grammar (no size token before the first
\* x, or a width token that is empty, not a numeral, <= 0 or above 1000000)
\* makes every handler return not-found for it and for every path under it.
C7_MalformedNotFound ==
    (/\ Last.pc = "done"
     /\ Last.path # <<"/">>
     /\ ~InGrammar(FirstSegment(Last.path)))
    => NotFound

\* the names readdir lists for a layer of width w
IsListing(entries, w) ==
    /\ Len(entries) = w + 2
    /\ entries[1] = <<".">>
    /\ entries[2] = <<".", ".">>
    /\ \A i \in 0..(w - 1) :
          /\ IsNumeral(entries[i + 3])
          /\ DecValue(entries[i + 3]) = i
          /\ (Len(entries[i + 3]) = 1 \/ entries[i + 3][1] # "0")

\* C8: readdir on the descriptor segment followed by k < depth selectors
\* lists ".", "..", then 0 .. widths[k]-1 in order and returns 0; on every
\* other path it lists nothing and returns not-found.
C8_ReaddirListing ==
    Returned("readdir")
    => IF /\ Last.path # <<"/">>
          /\ ParseOK(Last.path)
          /\ NumSelectors(Last.path) < Depth(Last.path)
       THEN /\ Last.ret = 0
            /\ IsListing(Last.entries, WidthOf(Last.path, NumSelectors(Last.path) + 1))
       ELSE NotFound /\ Last.entries = <<>>

\* C10: a selector at any layer that is not a decimal integer in
\* [0, w_i - 1] makes every handler return not-found.
C10_SelectorsValidated ==
    (/\ Last.pc = "done"
     /\ Last.path # <<"/">>
     /\ ParseOK(Last.path)
     /\ \E i \in 1..NumSelectors(Last.path) :
           i <= Depth(Last.path) /\ ~GoodSelector(Last.path, i))
    => NotFound

-----------------------------------------------------------------------------
(* Reads compared with earlier reads.  The run is any sequence of calls on *)
(* a few paths; kept is one earlier read that returned bytes.              *)

MaxReadCalls == 3     \* calls in one run of reads

DirPaths == {Join(<<D_1kx5x4>>)}
FilePaths == {Join(<<D_1kx5x4, <<"2">>, <<"3">>>>), Join(<<D_2048kx1, <<"0">>>>)}

ReadSizes == {MaxSize, KILO}
ReadOffsets == {0, LINE - 2, KILO - 2, KILO + LINE, BigOffset}

\* what the caller of a read holds after it: the path, the offset, the bytes
Observed(l) == [path |-> l.path, offset |-> l.offset, data |-> l.data]

ReadKept(P, F, S, O) ==
    /\ \E path \in P, flags \in F, size \in S, offset \in O :
          Call(NewFrame("read", path, flags, size, offset, oob))
    /\ kept' \in IF frame'[1].ret > 0 THEN {kept, Observed(frame'[1])} ELSE {kept}

NextReads ==
    \/ calls < MaxReadCalls /\ Getattr(DirPaths)
    \/ calls < MaxReadCalls /\ Readdir(DirPaths)
    \/ calls < MaxReadCalls /\ Open(DirPaths, {O_RDONLY, O_RDWR})
    \/ calls < MaxReadCalls /\ ReadKept(FilePaths, {O_RDONLY}, ReadSizes, ReadOffsets)

SpecReads == Init /\ [][NextReads]_vars

\* a read-only read of a file node has returned
ReadReturned == Returned("read") /\ Last.flags = O_RDONLY /\ FileNode(Last.path)

Min(a, b) == IF a < b THEN a ELSE b

\* C5: a read of a file node returns min(size, file_size - offset) bytes when
\* offset < file_size and no byte at all when offset >= file_size.
C5_ReadWithinFile ==
    ReadReturned
    => IF Last.offset < FileSize(Last.path)
       THEN /\ Last.ret = Min(Last.size, FileSize(Last.path) - Last.offset)
            /\ Len(Last.data) = Last.ret
       ELSE Last.ret = 0 /\ Last.data = <<>>

\* C6: the byte a read gives for a position j of the file is newline when
\* j mod 32 = 31 or j = file_size - 1, and one of 'a'..'z' otherwise.
C6_LettersAndNewlines ==
    ReadReturned
    => \A i \in 1..Len(Last.data) :
          (Last.offset + (i - 1) < FileSize(Last.path))
          => IF \/ (Last.offset + (i - 1)) % LINE = LINE - 1
                \/ Last.offset + (i - 1) = FileSize(Last.path) - 1
             THEN Last.data[i] = 10
             ELSE Last.data[i] >= 97 /\ Last.data[i] <= 122

\* the absolute positions two reads both cover
Shared(a, b) ==
    {j \in a.offset..(a.offset + Len(a.data) - 1) :
        j >= b.offset /\ j <= b.offset + Len(b.data) - 1}

ByteAt(r, j) == r.data[(j - r.offset) + 1]

\* C9: two reads of the same path give the same byte at every position both
\* cover, whatever calls were made between them; and a read of
\* [0, file_size) returns file_size bytes.
C9_ContentIsAFunction ==
    (Returned("read") /\ Last.ret > 0)
    => /\ (kept.path = Last.path)
          => \A j \in Shared(kept, Observed(Last)) :
                ByteAt(kept, j) = ByteAt(Observed(Last), j)
       /\ (FileNode(Last.path) /\ Last.offset = 0
               /\ Last.size = FileSize(Last.path))
          => Len(Last.data) = FileSize(Last.path)

\* C9 (reached): after the whole file was read and another call was made, a
\* part of the file is read again from another offset
C9_Witness ==
    /\ Returned("read")
    /\ Last.ret > 0
    /\ calls >= 3
    /\ kept.path = Last.path
    /\ kept.offset = 0
    /\ Len(kept.data) = FileSize(Last.path)
    /\ Last.offset > 0
    /\ Shared(kept, Observed(Last)) # {}

-----------------------------------------------------------------------------
(* Two calls at once.  Each thread makes one call; the steps of the two    *)
(* calls are taken in any order, on the same statics.                      *)

ThreadPaths == {Join(<<D_1kx5x4, <<"2">>, <<"3">>>>), Join(<<D_1x5, <<"0">>>>)}

ThreadOps == {"getattr", "readdir", "open", "read"}

\* thread t enters a handler
Begin(t) ==
    /\ frame[t].pc = "idle"
    /\ \E op \in ThreadOps, path \in ThreadPaths :
          frame' = [frame EXCEPT ![t] =
                       NewFrame(op, path, O_RDONLY,
                                IF op = "read" THEN MaxSize ELSE 0, 0, oob)]
    /\ calls' = calls + 1
    /\ UNCHANGED <<parse_path_buf, parse_root_buf, strtok_save, oob, kept>>

\* thread t takes the next step of its call
Advance(t) ==
    /\ frame[t].pc \notin {"idle", "done"}
    /\ Commit(t, Step(frame[t], Memory))
    /\ UNCHANGED <<oob, calls, kept>>

NextThreads == \E t \in Threads : Begin(t) \/ Advance(t)

SpecThreads == Init /\ [][NextThreads]_vars

\* what a call gives back to its caller
Result(l) == [ret |-> l.ret, st |-> l.st, entries |-> l.entries, data |-> l.data]

\* the call of frame l, made with no other call in flight
Alone(l) ==
    Run([l |-> NewFrame(l.op, l.path, l.flags, l.size, l.offset, l.oob),
         m |-> [pp |-> <<>>, pr |-> <<>>, save |-> NULL]]).l

\* C1: a call that ran while another call was in flight returns what it
\* returns when it runs alone.
C1_ResultAsAlone ==
    \A t \in Threads :
        (frame[t].pc = "done") => Result(frame[t]) = Result(Alone(frame[t]))

====
